---- MODULE Spec2Model ----
(***************************************************************************)
(* Model of the economic-dashboard backend (src/main.py): the in-memory    *)
(* TTL cache, the two upstream adapters (FRED series, Yahoo quotes) and    *)
(* the two cached GET routes.                                              *)
(*                                                                         *)
(* Floating-point values are modelled as exact rationals [k, n, d] with    *)
(* the IEEE specials nan / inf / ninf kept apart; prices are counted in    *)
(* millionths so that rounding to 5 decimals is an operation on integers.  *)
(* Timestamps of observations are records [y, m, d]; strftime("%Y-%m-%d")  *)
(* turns one into the tuple <<y, m, d>>.  The wall clock is counted in     *)
(* minutes.                                                                *)
(***************************************************************************)
EXTENDS Integers, Sequences, FiniteSets, Bags, TLC

VARIABLES
    CACHE,      \* main.py:21  the module-level dict: key -> [data, timestamp]
    now,        \* datetime.utcnow(), in minutes
    h,          \* the request handlers in flight (worker threads), a bag of records
    g,          \* the answer just given and the history of the run, read by
                \* the properties only
    inp,        \* adapter run on its own: its arguments and the upstream's
                \* answer; for the service, which requests arrive
    out         \* adapter run on its own: its result

vars == <<CACHE, now, h, g, inp, out>>

-----------------------------------------------------------------------------
(* Bounds of the model *)

NProc == 2          \* concurrently running request handlers
MaxTime == 30       \* the clock stops advancing here
Quantum == 15       \* minutes per clock step
MaxObs == 14        \* longest upstream FRED series
MaxDays == 3        \* longest upstream price history
SmallPoints == 2    \* a max_points smaller than the series
PriceDigits == 6    \* decimal digits of an upstream price

(* Program constants *)

CACHE_TTL == 30             \* main.py:22  timedelta(minutes=30)
DefaultMaxPoints == 240     \* main.py:53  max_points: int = 240
MonthlyLag == 12            \* main.py:51
QuarterlyLag == 4           \* main.py:50
RoundDigits == 5            \* main.py:110 round(5)

-----------------------------------------------------------------------------
(* Floats *)

Abs(x) == IF x < 0 THEN -x ELSE x

RECURSIVE GCD(_, _)
GCD(a, b) == IF b = 0 THEN a ELSE GCD(b, a % b)

RECURSIVE Pow10(_)
Pow10(e) == IF e = 0 THEN 1 ELSE 10 * Pow10(e - 1)

NaN == [k |-> "nan", n |-> 0, d |-> 1]
PosInf == [k |-> "inf", n |-> 0, d |-> 1]
NegInf == [k |-> "ninf", n |-> 0, d |-> 1]

\* the float n/d, d # 0, in lowest terms with a positive denominator
Rat(n, d) ==
    LET s == IF d < 0 THEN -1 ELSE 1
        gg == GCD(Abs(n), Abs(d))
    IN  [k |-> "num", n |-> (s * n) \div gg, d |-> (s * d) \div gg]

Num(n) == Rat(n, 1)

IsNaN(v) == v.k = "nan"
IsFinite(v) == v.k = "num"

\* a - b and a / b for finite floats, b # 0; every product is reduced first
Sub(a, b) ==
    LET l == (a.d \div GCD(a.d, b.d)) * b.d
    IN  Rat(a.n * (l \div a.d) - b.n * (l \div b.d), l)

Quot(a, b) ==
    LET g1 == GCD(Abs(a.n), Abs(b.n))
        g2 == GCD(a.d, b.d)
    IN  Rat((a.n \div g1) * (b.d \div g2), (a.d \div g2) * (b.n \div g1))

Times100(a) == LET q == 100 \div GCD(100, a.d) IN Rat(a.n * q, a.d \div (100 \div q))

\* numpy's float division: x/0 is +-inf, 0/0 is nan
NpDiv(a, b) ==
    IF ~IsFinite(a) \/ ~IsFinite(b) THEN NaN
    ELSE IF b.n = 0
         THEN (IF a.n = 0 THEN NaN ELSE IF a.n > 0 THEN PosInf ELSE NegInf)
         ELSE Quot(a, b)

\* (a - 1) * 100 on floats
MinusOneTimes100(a) ==
    IF IsFinite(a) THEN Times100(Rat(a.n - a.d, a.d)) ELSE a

\* ((curr - prev) / prev) * 100 for two finite floats, prev # 0
PctOf(curr, prev) == Times100(Quot(Sub(curr, prev), prev))

-----------------------------------------------------------------------------
(* Dates *)

StrfYmd(ts) == <<ts.y, ts.m, ts.d>>

\* first day of the month with ordinal o (months since year 0)
MonthStart(o) == [y |-> o \div 12, m |-> (o % 12) + 1, d |-> 1]

MonthOrd(ts) == ts.y * 12 + ts.m - 1

\* order of two formatted dates
DateLE(a, b) ==
    \/ a[1] < b[1]
    \/ a[1] = b[1] /\ a[2] < b[2]
    \/ a[1] = b[1] /\ a[2] = b[2] /\ a[3] <= b[3]

-----------------------------------------------------------------------------
(* Optional strings (Python's None against a str) and results *)

None == [some |-> FALSE, s |-> ""]
Some(s) == [some |-> TRUE, s |-> s]

\* str(x) as an f-string formats it
Str(x) == IF x.some THEN x.s ELSE "None"

\* a payload dict: a SeriesResult has series_id (id), history and latest; a
\* QuoteResult has symbol (id), latest, ytd_change and history {dates, values}
NoData == [shape |-> "none", id |-> "", history |-> <<>>, dates |-> <<>>,
           values |-> <<>>, latest |-> NaN, ytd_change |-> NaN]

\* a returned dict, or a raised exception with its str()
Ok(data) == [ok |-> TRUE, data |-> data, err |-> ""]
Raise(msg) == [ok |-> FALSE, data |-> NoData, err |-> msg]

\* what the upstream client library answers: a table, or an exception
Table(rows) == [tag |-> "table", rows |-> rows, msg |-> ""]
Throws(msg) == [tag |-> "raise", rows |-> <<>>, msg |-> msg]

-----------------------------------------------------------------------------
(* FRED adapter, main.py:41-83 *)

\* df.dropna(subset=["value"])
DropNa(rows) == SelectSeq(rows, LAMBDA r : ~IsNaN(r.value))

\* pd.infer_freq on the month-start timestamps of the index: it raises below 3
\* dates, answers None for an index that is not strictly increasing or not
\* evenly spaced, "MS" for a step of one month and "QS" for a step of three.
InferFreq(index) ==
    LET n == Len(index)
        step(i) == MonthOrd(index[i + 1]) - MonthOrd(index[i])
    IN  IF n < 3 THEN "raise"
        ELSE IF \E i \in 1..(n - 1) : step(i) <= 0 THEN "None"
        ELSE IF \A i \in 1..(n - 1) : step(i) = 1 THEN "MS"
        ELSE IF \A i \in 1..(n - 1) : step(i) = 3 THEN "QS"
        ELSE "None"

\* _infer_yoy_lag: the index is a DatetimeIndex here (lines 62-65 converted it),
\* so the PeriodIndex branch is skipped; 0 stands for the exception of infer_freq
_infer_yoy_lag(index) ==
    LET inferred == InferFreq(index)
    IN  IF inferred = "raise" THEN 0
        ELSE IF inferred = "QS" THEN QuarterlyLag
        ELSE MonthlyLag

\* df["value"].pct_change(lag) * 100.0 : row i against row i - lag of the frame
PctChange(rows, lag) ==
    [i \in 1..Len(rows) |->
        [ts |-> rows[i].ts,
         value |-> IF i <= lag THEN NaN
                   ELSE MinusOneTimes100(NpDiv(rows[i].value, rows[i - lag].value))]]

\* df.tail(n): the last n rows, or all but the first -n rows for a negative n
DfTail(rows, n) ==
    LET len == Len(rows)
    IN  IF n >= 0
        THEN (IF n >= len THEN rows ELSE SubSeq(rows, len - n + 1, len))
        ELSE (IF -n >= len THEN <<>> ELSE SubSeq(rows, 1 - n, len))

\* lines 67-73: clean, then the transform (used once infer_freq has not raised)
Transformed(rows, transform) ==
    LET clean == DropNa(rows)
    IN  IF transform = Some("yoy")
        THEN DropNa(PctChange(clean, _infer_yoy_lag([i \in 1..Len(clean) |-> clean[i].ts])))
        ELSE clean

\* lines 75-79
Trimmed(rows, max_points) ==
    IF max_points # 0 THEN DfTail(rows, max_points) ELSE rows

History(rows) ==
    [i \in 1..Len(rows) |-> [date |-> StrfYmd(rows[i].ts), value |-> rows[i].value]]

fetch_fred_series(up, series_id, transform, max_points) ==
    IF up.tag = "raise" THEN Raise(up.msg)
    ELSE IF Len(up.rows) = 0
         THEN Raise("No data returned for FRED series " \o series_id)
    ELSE LET clean == DropNa(up.rows)
         IN  IF transform = Some("yoy")
                /\ _infer_yoy_lag([i \in 1..Len(clean) |-> clean[i].ts]) = 0
             THEN Raise("Need at least 3 dates to infer frequency")
             ELSE LET data == History(Trimmed(Transformed(up.rows, transform), max_points))
                  IN  IF Len(data) = 0
                      THEN Raise("No usable observations for " \o series_id)
                      ELSE Ok([NoData EXCEPT !.shape = "series",
                                             !.id = series_id,
                                             !.history = data,
                                             !.latest = data[Len(data)].value])

-----------------------------------------------------------------------------
(* Yahoo adapter, main.py:87-113 *)

\* Series.round(digits): to the nearest multiple of 10^-digits, ties to even
Round(v, digits) ==
    LET m == Pow10(digits)
        q == (v.n * m) \div v.d
        r == (v.n * m) % v.d
        up == (2 * r > v.d) \/ (2 * r = v.d /\ q % 2 = 1)
    IN  IF IsFinite(v) THEN Rat(q + (IF up THEN 1 ELSE 0), m) ELSE v

\* fetch_yahoo with the percentage taken from the rounded closes
fetch_yahoo_from_rounded(up, symbol) ==
    IF up.tag = "raise" THEN Raise(up.msg)
    ELSE IF Len(up.rows) = 0 THEN Raise("No data returned for " \o symbol)
    ELSE LET first_price == Round(up.rows[1].close, RoundDigits)
             latest_price == up.rows[Len(up.rows)].close
         IN  IF first_price.n = 0 THEN Raise("float division by zero")
             ELSE Ok([NoData EXCEPT
                        !.shape = "quote",
                        !.id = symbol,
                        !.latest = latest_price,
                        !.ytd_change = PctOf(latest_price, first_price),
                        !.dates = [i \in 1..Len(up.rows) |-> StrfYmd(up.rows[i].ts)],
                        !.values = [i \in 1..Len(up.rows) |->
                                       Round(up.rows[i].close, RoundDigits)]])

\* ((latest_price - first_price) / first_price) * 100.0 on Python floats:
\* a zero first_price raises ZeroDivisionError
fetch_yahoo(up, symbol) ==
    IF up.tag = "raise" THEN Raise(up.msg)
    ELSE IF Len(up.rows) = 0 THEN Raise("No data returned for " \o symbol)
    ELSE LET first_price == up.rows[1].close
             latest_price == up.rows[Len(up.rows)].close
         IN  IF first_price.n = 0 THEN Raise("float division by zero")
             ELSE Ok([NoData EXCEPT
                        !.shape = "quote",
                        !.id = symbol,
                        !.latest = latest_price,
                        !.ytd_change = PctOf(latest_price, first_price),
                        !.dates = [i \in 1..Len(up.rows) |-> StrfYmd(up.rows[i].ts)],
                        !.values = [i \in 1..Len(up.rows) |->
                                       Round(up.rows[i].close, RoundDigits)]])

-----------------------------------------------------------------------------
(* Upstream answers the model draws from *)

\* observation i of a series: value pattern pat, missing at position gap
ObsValue(pat, i, gap) ==
    IF i = gap THEN NaN
    ELSE IF pat = 1 THEN Num(100 + i)
    ELSE Num((i * i) % 3)

\* n observations, `step` months apart from January 2000, in date order unless
\* swapped (then the first two are exchanged)
FredRows(step, n, gap, pat, swapped) ==
    LET pos(i) == IF swapped /\ n >= 2 /\ i <= 2 THEN 3 - i ELSE i
    IN  [i \in 1..n |-> [ts |-> MonthStart(2000 * 12 + (pos(i) - 1) * step),
                         value |-> ObsValue(pat, pos(i), gap)]]

Price(p) == Rat(p, Pow10(PriceDigits))

Prices == {Price(0), Price(4), Price(10), Price(15), Price(20), Price(25)}

\* daily closes of the first trading days of the year
YahooRows(closes) ==
    [i \in 1..Len(closes) |-> [ts |-> [y |-> 2026, m |-> 1, d |-> 1 + i],
                                close |-> closes[i]]]

SeqsUpTo(S, n) == UNION {[1..k -> S] : k \in 0..n}

NoInput == [kind |-> "none", id |-> "", transform |-> None, max_points |-> 0,
            step |-> 0, up |-> Throws("")]

FredInputs ==
    {[kind |-> "fred", id |-> "CPIAUCSL", transform |-> t, max_points |-> mp,
      step |-> step, up |-> Table(FredRows(step, n, gap, pat, sw))] :
        t \in {None, Some("yoy")},
        mp \in {0, SmallPoints, DefaultMaxPoints},
        step \in {1, 3}, n \in 0..MaxObs, gap \in 0..MaxObs,
        pat \in {1, 2}, sw \in BOOLEAN}

YahooInputs ==
    {[kind |-> "quote", id |-> "AAPL", transform |-> None, max_points |-> 0,
      step |-> 0, up |-> Table(YahooRows(cs))] : cs \in SeqsUpTo(Prices, MaxDays)}

NoResult == [ok |-> FALSE, data |-> NoData, err |-> "(not run)"]

-----------------------------------------------------------------------------
(* State of the service *)

EmptyCache == [k \in {} |-> 0]

NoReq == [route |-> "none", id |-> "", transform |-> None]
Quote(symbol) == [route |-> "quote", id |-> symbol, transform |-> None]
Fred(series_id, transform) == [route |-> "fred", id |-> series_id, transform |-> transform]

NoResp == [status |-> 0, body |-> NoData, error |-> "", json |-> TRUE]

\* a handler: where it stands, its request, and (for the properties) what it
\* saw at its lookup and what it did; Idle is the record of no handler
Idle == [pc |-> "idle", req |-> NoReq, data |-> NoData, resp |-> NoResp,
         up |-> Throws(""), hit |-> FALSE, failed |-> FALSE, wrote |-> FALSE,
         t0 |-> 0, tset |-> 0, seen |-> {}, had |-> FALSE, age |-> 0, prior |-> NoData]

\* the run so far: the handler that answered in the step just taken, as it
\* stood when it answered (Idle when the step answered no request); for each
\* key the payloads stored by requests that answered 200 and whose TTL window
\* is still open (the earliest of them and the latest); and the last
\* cache_set of each key, with whether it replaced an expired entry
NoHistory == [last |-> Idle, oks |-> EmptyCache, lastWrite |-> EmptyCache]

OksOf(key) == IF key \in DOMAIN g.oks THEN g.oks[key] ELSE <<>>

InitService ==
    /\ CACHE = EmptyCache
    /\ now = 0
    /\ h = EmptyBag
    /\ g = NoHistory

-----------------------------------------------------------------------------
(* The adapters run on their own *)

InitFred == InitService /\ inp \in FredInputs /\ out = NoResult

RunFred ==
    /\ inp.kind = "fred" /\ out = NoResult
    /\ out' = fetch_fred_series(inp.up, inp.id, inp.transform, inp.max_points)
    /\ UNCHANGED <<CACHE, now, h, g, inp>>

SpecFred == InitFred /\ [][RunFred]_vars

InitYahoo == InitService /\ inp \in YahooInputs /\ out = NoResult

RunYahoo ==
    /\ inp.kind = "quote" /\ out = NoResult
    /\ out' = fetch_yahoo(inp.up, inp.id)
    /\ UNCHANGED <<CACHE, now, h, g, inp>>

SpecYahoo == InitYahoo /\ [][RunYahoo]_vars

-----------------------------------------------------------------------------
(* Cache, main.py:21-33 *)

\* cache_get with the comparison turned around
cache_get_reversed(C, key, t) ==
    IF key \in DOMAIN C /\ t - C[key].timestamp > CACHE_TTL
    THEN C[key].data
    ELSE NoData

\* cache_get that still serves an entry of age exactly TTL
cache_get_inclusive(C, key, t) ==
    IF key \in DOMAIN C /\ t - C[key].timestamp <= CACHE_TTL
    THEN C[key].data
    ELSE NoData

\* cache_get with now = t: the entry's data, or None (NoData)
cache_get(C, key, t) ==
    IF key \in DOMAIN C /\ t - C[key].timestamp < CACHE_TTL
    THEN C[key].data
    ELSE NoData

\* cache_set as CACHE.setdefault: an existing entry is kept
cache_set_setdefault(C, key, data, t) ==
    IF key \in DOMAIN C THEN C
    ELSE [k \in (DOMAIN C) \cup {key} |->
            IF k = key THEN [data |-> data, timestamp |-> t] ELSE C[k]]

\* cache_set that updates an existing entry in place and keeps its timestamp
cache_set_in_place(C, key, data, t) ==
    IF key \in DOMAIN C THEN [C EXCEPT ![key].data = data]
    ELSE [k \in (DOMAIN C) \cup {key} |->
            IF k = key THEN [data |-> data, timestamp |-> t] ELSE C[k]]

\* cache_set with now = t: CACHE[key] = {"data": data, "timestamp": now}
cache_set(C, key, data, t) ==
    [k \in (DOMAIN C) \cup {key} |->
        IF k = key THEN [data |-> data, timestamp |-> t] ELSE C[k]]

-----------------------------------------------------------------------------
(* Routes, main.py:120-142 *)

\* f"quote:{symbol}" and f"fred:{series_id}:{transform}"
Key(r) ==
    IF r.route = "quote" THEN "quote:" \o r.id
    ELSE "fred:" \o r.id \o ":" \o Str(r.transform)

\* `if cached:` a dict is true unless it is empty; None is false
Truthy(d) == d.shape # "none"

\* json.dumps(..., allow_nan=False) accepts finite floats only
JsonCompliant(d) ==
    /\ IsFinite(d.latest)
    /\ d.shape = "quote" => IsFinite(d.ytd_change)
    /\ \A i \in 1..Len(d.history) : IsFinite(d.history[i].value)
    /\ \A i \in 1..Len(d.values) : IsFinite(d.values[i])

\* `return cached`: the framework serialises the dict; a float that is not
\* JSON compliant makes it answer 500 Internal Server Error in plain text
ReturnDict(d) ==
    IF JsonCompliant(d)
    THEN [status |-> 200, body |-> d, error |-> "", json |-> TRUE]
    ELSE [status |-> 500, body |-> NoData, error |-> "Internal Server Error", json |-> FALSE]

\* JSONResponse(content={"error": str(e)}, status_code=500)
ErrorResponse(msg) == [status |-> 500, body |-> NoData, error |-> msg, json |-> TRUE]

\* JSONResponse(content=data) inside the try: rendering raises ValueError on a
\* float that is not JSON compliant, which the except turns into a 500
JSONResponse(d) ==
    IF JsonCompliant(d)
    THEN [status |-> 200, body |-> d, error |-> "", json |-> TRUE]
    ELSE ErrorResponse("Out of range float values are not JSON compliant")

\* fetch_yahoo(symbol) or fetch_fred_series(series_id, transform)
Adapter(r, up) ==
    IF r.route = "quote" THEN fetch_yahoo(up, r.id)
    ELSE fetch_fred_series(up, r.id, r.transform, DefaultMaxPoints)

\* the except branch without status_code=500
OnFetched_status200(res) ==
    IF res.ok
    THEN [pc |-> "set", data |-> res.data, resp |-> NoResp]
    ELSE [pc |-> "done", data |-> NoData,
          resp |-> [status |-> 200, body |-> NoData, error |-> res.err, json |-> TRUE]]

\* cache_set moved out of the try: the failure is cached as well
OnFetched_caches_failure(res) ==
    [pc |-> "set", data |-> res.data, resp |-> NoResp]

\* the try/except around the adapter call: on success go on to cache_set with
\* the data, on an exception answer 500 and touch nothing
OnFetched(res) ==
    IF res.ok
    THEN [pc |-> "set", data |-> res.data, resp |-> NoResp]
    ELSE [pc |-> "done", data |-> NoData, resp |-> ErrorResponse(res.err)]

-----------------------------------------------------------------------------
(* The environment of the service: the requests that arrive and what the two
   upstream providers may answer *)

MainReqs == {Quote("AAPL"), Fred("GDP", Some("yoy"))}

KeyReqs == {Quote("A"), Fred("A", None), Fred("A", Some("None")),
            Fred("A", Some("yoy:None")), Fred("A:yoy", None)}

Requests == IF inp.kind = "keys" THEN KeyReqs ELSE MainReqs

QuoteAnswers ==
    {Table(<<>>), Throws(""),
     Table(YahooRows(<<Price(10), Price(20)>>)),
     Table(YahooRows(<<Price(20), Price(15)>>))}

\* quarterly series: an empty one, one too short for a year-over-year value,
\* two with values, and one whose year-over-year change divides by zero
FredAnswers ==
    {Table(<<>>), Throws("Bad Request.  The series does not exist."),
     Table(FredRows(3, 4, 0, 1, FALSE)),
     Table(FredRows(3, 5, 0, 1, FALSE)),
     Table(FredRows(3, 7, 0, 2, FALSE))}

AnswersIn(kind, r) ==
    IF kind = "keys"
    THEN (IF r.id = "A"
          THEN {Table(IF r.route = "quote" THEN YahooRows(<<Price(10)>>)
                      ELSE FredRows(1, 3, 0, 1, FALSE))}
          ELSE {Throws("Bad Request.  The series does not exist.")})
    ELSE (IF r.route = "quote" THEN QuoteAnswers ELSE FredAnswers)

Answers(r) == AnswersIn(inp.kind, r)

ServiceInput == [NoInput EXCEPT !.kind = "service"]
KeysInput == [NoInput EXCEPT !.kind = "keys"]

-----------------------------------------------------------------------------
(* Steps of a request handler *)

\* the handlers in flight, and the bag without one of them
InFlight == BagToSet(h)
Without(x) == h (-) SetToBag({x})

\* lines 122-124 / 134-136: the key, cache_get, and the answer on a hit
Request(r) ==
    /\ BagCardinality(h) < NProc
    /\ LET key == Key(r)
           cached == cache_get(CACHE, key, now)
           had == key \in DOMAIN g.lastWrite
           mine == [Idle EXCEPT
                      !.req = r, !.t0 = now,
                      !.had = had,
                      !.age = IF had THEN now - g.lastWrite[key].timestamp ELSE 0,
                      !.prior = IF had THEN g.lastWrite[key].data ELSE NoData,
                      !.seen = {d \in {OksOf(key)[i] : i \in 1..Len(OksOf(key))} :
                                    now - d.ts < CACHE_TTL}]
       IN  IF Truthy(cached)
           THEN /\ g' = [g EXCEPT !.last = [mine EXCEPT !.pc = "done", !.hit = TRUE,
                                                        !.resp = ReturnDict(cached)]]
                /\ h' = h
           ELSE /\ h' = h (+) SetToBag({[mine EXCEPT !.pc = "fetch"]})
                /\ g' = [g EXCEPT !.last = Idle]
    /\ UNCHANGED <<CACHE, now, inp, out>>

\* lines 125-126, 129-130 / 137-138, 141-142: the upstream call and its outcome
Fetch(x, up) ==
    /\ x \in InFlight /\ x.pc = "fetch"
    /\ LET res == Adapter(x.req, up)
           nxt == OnFetched(res)
           mine == [x EXCEPT !.pc = nxt.pc, !.data = nxt.data, !.resp = nxt.resp,
                             !.up = up, !.failed = ~res.ok]
       IN  IF nxt.pc = "done"
           THEN /\ g' = [g EXCEPT !.last = mine]
                /\ h' = Without(x)
           ELSE /\ h' = Without(x) (+) SetToBag({mine})
                /\ g' = [g EXCEPT !.last = Idle]
    /\ UNCHANGED <<CACHE, now, inp, out>>

\* lines 127-128 / 139-140: cache_set, then the response
CacheSet(x) ==
    /\ x \in InFlight /\ x.pc = "set"
    /\ LET key == Key(x.req)
           resp == JSONResponse(x.data)
       IN  /\ CACHE' = cache_set(CACHE, key, x.data, now)
           /\ h' = Without(x)
           /\ g' = [g EXCEPT
                      !.last = [x EXCEPT !.pc = "done", !.resp = resp,
                                         !.wrote = TRUE, !.tset = now],
                      !.lastWrite = [k \in (DOMAIN @) \cup {key} |->
                                        IF k = key
                                        THEN [data |-> x.data, timestamp |-> now,
                                              refresh |-> x.had /\ x.age >= CACHE_TTL]
                                        ELSE @[k]],
                      !.oks = IF resp.status = 200
                              THEN [k \in (DOMAIN @) \cup {key} |->
                                      IF k # key THEN @[k]
                                      ELSE IF OksOf(key) = <<>>
                                           THEN <<[data |-> x.data, ts |-> now]>>
                                           ELSE <<OksOf(key)[1],
                                                  [data |-> x.data, ts |-> now]>>]
                              ELSE @]
    /\ UNCHANGED <<now, inp, out>>

\* the wall clock advances
Tick ==
    /\ now + Quantum <= MaxTime
    /\ now' = now + Quantum
    /\ g' = [g EXCEPT !.last = Idle,
                      !.oks = [k \in DOMAIN @ |->
                                 SelectSeq(@[k], LAMBDA d : now' - d.ts < CACHE_TTL)]]
    /\ UNCHANGED <<CACHE, h, inp, out>>

Init == InitService /\ inp = ServiceInput /\ out = NoResult

Next ==
    \/ \E r \in Requests : Request(r)
    \/ \E x \in InFlight : \E up \in Answers(x.req) : Fetch(x, up)
    \/ \E x \in InFlight : CacheSet(x)
    \/ Tick

Spec == Init /\ [][Next]_vars

\* the same service, with requests whose parameters contain ':' and "None"
InitKeys == InitService /\ inp = KeysInput /\ out = NoResult

NextKeys ==
    \/ \E r \in Requests : Request(r)
    \/ \E x \in InFlight : \E up \in Answers(x.req) : Fetch(x, up)
    \/ \E x \in InFlight : CacheSet(x)

SpecKeys == InitKeys /\ [][NextKeys]_vars

-----------------------------------------------------------------------------
(* Properties of the FRED adapter (checked under SpecFred) *)

FredRan == inp.kind = "fred" /\ out # NoResult

\* the series after cleaning and the transform, as the adapter formats it
Filtered == History(Transformed(inp.up.rows, inp.transform))

IsSuffix(a, b) ==
    /\ Len(a) <= Len(b)
    /\ \A i \in 1..Len(a) : a[i] = b[Len(b) - Len(a) + i]

SortedByDate(hist) ==
    \A i \in 1..(Len(hist) - 1) : DateLE(hist[i].date, hist[i + 1].date)

\* C5: every successful result of fetch_fred_series, whatever the order of the
\* upstream observations and whatever max_points, has at most max_points
\* history entries, which are the trailing points of the filtered series, in
\* ascending date order, and latest is the value of the last history point.
C5_HistoryTrimmedAndSorted ==
    (FredRan /\ out.ok) =>
        /\ Len(out.data.history) <= inp.max_points
        /\ IsSuffix(out.data.history, Filtered)
        /\ SortedByDate(out.data.history)
        /\ out.data.latest = out.data.history[Len(out.data.history)].value

\* lag of the series' real cadence: 4 for quarterly data, 12 for monthly
CadenceLag == IF inp.step = 3 THEN QuarterlyLag ELSE MonthlyLag

\* the upstream observations dated exactly `months` months before date dt
ObsBefore(dt, months) ==
    {i \in 1..Len(inp.up.rows) :
        MonthOrd(inp.up.rows[i].ts) = (dt[1] * 12 + dt[2] - 1) - months}

YoYOf(curr, prev) == MinusOneTimes100(NpDiv(curr, prev))

UpstreamInDateOrder ==
    \A i \in 1..(Len(inp.up.rows) - 1) :
        MonthOrd(inp.up.rows[i].ts) < MonthOrd(inp.up.rows[i + 1].ts)

\* C6: with transform "yoy" on a date-ordered upstream series, every returned
\* point is the percentage change of its observation against the observation
\* exactly lag sampling periods earlier (lag 4 quarterly, 12 monthly), which
\* exists and is not missing, also when values are missing in between; no
\* returned value is NaN.
C6_YoYAgainstLagPeriodsEarlier ==
    (FredRan /\ out.ok /\ inp.transform = Some("yoy") /\ UpstreamInDateOrder) =>
        \A k \in 1..Len(out.data.history) :
            LET pt == out.data.history[k]
            IN  /\ ~IsNaN(pt.value)
                /\ \E i \in ObsBefore(pt.date, 0) :
                   \E j \in ObsBefore(pt.date, CadenceLag * inp.step) :
                      /\ ~IsNaN(inp.up.rows[j].value)
                      /\ pt.value = YoYOf(inp.up.rows[i].value, inp.up.rows[j].value)

-----------------------------------------------------------------------------
(* Properties of the Yahoo adapter (checked under SpecYahoo) *)

YahooRan == inp.kind = "quote" /\ out # NoResult

FirstClose == inp.up.rows[1].close
LastClose == inp.up.rows[Len(inp.up.rows)].close

Aligned ==
    /\ Len(out.data.dates) = Len(inp.up.rows)
    /\ Len(out.data.values) = Len(inp.up.rows)
    /\ \A i \in 1..Len(inp.up.rows) :
          /\ out.data.dates[i] = StrfYmd(inp.up.rows[i].ts)
          /\ out.data.values[i] = Round(inp.up.rows[i].close, RoundDigits)

\* C7 as claimed: ytd_change is (latest - values[0]) / values[0] * 100 with
\* values the returned (rounded) closes, and dates and values are aligned.
C7_YtdFromReturnedValues ==
    (YahooRan /\ out.ok) =>
        /\ out.data.values[1].n # 0
        /\ out.data.ytd_change = PctOf(out.data.latest, out.data.values[1])
        /\ Len(out.data.dates) = Len(out.data.values)

\* |a - b| <= 1/2 * 10^-digits
WithinHalfUnit(a, b, digits) ==
    LET df == Sub(a, b) IN 2 * Abs(df.n) * Pow10(digits) <= df.d

\* C7 amended: ytd_change is (latest - first) / first * 100 with first and
\* latest the unrounded earliest and latest closes; values are the closes
\* rounded to 5 decimals (so values[0] is within half a unit of the 5th decimal
\* of first), and dates and values are aligned with the fetched rows.
C7_YtdFromUnroundedCloses ==
    (YahooRan /\ out.ok) =>
        /\ out.data.latest = LastClose
        /\ out.data.ytd_change = Times100(Quot(Sub(LastClose, FirstClose), FirstClose))
        /\ Aligned
        /\ WithinHalfUnit(out.data.values[1], FirstClose, RoundDigits)

\* a quote whose first close changed under rounding
C7_Witness ==
    /\ YahooRan /\ out.ok
    /\ Len(out.data.values) >= 2
    /\ out.data.values[1] # FirstClose
    /\ out.data.values[1].n # 0

-----------------------------------------------------------------------------
(* Properties of the cached routes (checked under Spec) *)

\* the handlers in flight and the one that answered last
Handlers == InFlight \cup {g.last}

Busy(x) == x.pc # "idle"
Done(x) == x.pc = "done"

\* the handler found an entry older than the TTL when it looked the key up
SawStale(x) == Busy(x) /\ x.had /\ x.age >= CACHE_TTL
SawFresh(x) == Busy(x) /\ x.had /\ x.age < CACHE_TTL

\* the entry a handler found at its lookup was written at this time
EntryTime(x) == x.t0 - x.age

\* C1: a payload is served from the cache only if, at the lookup, an entry for
\* the key existed and was younger than the TTL; the payload served is that
\* entry's data; an entry of age TTL or more is treated as absent.
C1_ServedOnlyWhileFresh ==
    \A x \in Handlers :
        /\ (Busy(x) /\ x.hit) =>
              /\ x.had
              /\ x.age < CACHE_TTL
              /\ x.resp = ReturnDict(x.prior)
        /\ SawStale(x) => ~x.hit
        /\ (Busy(x) /\ ~x.had) => ~x.hit

\* a handler found an entry of age exactly TTL and went on to fetch
C1_Witness ==
    \E x \in InFlight : x.pc = "fetch" /\ x.had /\ x.age = CACHE_TTL

\* C2 as claimed: a request that starts within the TTL window of an earlier
\* successful request for the key makes no upstream call and returns the
\* payload of that earlier response.
C2_IdenticalToEarlierResponse ==
    \A x \in Handlers : \A d \in x.seen :
        /\ x.pc \notin {"fetch", "set"}
        /\ ~x.wrote /\ ~x.failed
        /\ (Done(x) /\ x.resp.status = 200) => x.resp.body = d.data

\* C2 amended: such a request makes no upstream call and is answered from the
\* payload most recently stored for the key.
C2_ServedLastStoredWithoutFetch ==
    \A x \in Handlers : (Busy(x) /\ x.seen # {}) =>
        /\ Done(x) /\ x.hit
        /\ ~x.wrote /\ ~x.failed
        /\ x.resp = ReturnDict(x.prior)

\* a hit within the window of an earlier response that carried another payload
C2_Witness ==
    \E d \in g.last.seen :
        g.last.hit /\ g.last.resp.status = 200 /\ g.last.resp.body # d.data

\* C3 as claimed: a call that finds the entry expired refreshes it, and it is
\* the only call that fetches for that expiry.
C3_ExactlyOneRefreshAfterExpiry ==
    /\ \A x \in Handlers : (SawStale(x) /\ Done(x)) =>
          (x.wrote /\ CACHE[Key(x.req)].timestamp >= x.t0)
    /\ \A x \in InFlight : \A y \in InFlight :
          (SawStale(x) /\ SawStale(y) /\ y.req = x.req /\ EntryTime(y) = EntryTime(x)
             /\ (y # x \/ CopiesIn(x, h) > 1))
               => ~(x.pc = "set" /\ y.pc = "set")

\* C3 amended: a call that finds the entry expired goes upstream (it is never
\* served the stale data) and ends either failed, with nothing written, or
\* having stored {data: its payload, timestamp: now}, which is the entry until
\* the next write; a request that starts while the entry is younger than the
\* TTL is served from it without an upstream call.
C3_StaleCallRefreshes ==
    \A x \in Handlers :
        /\ SawStale(x) =>
              /\ ~x.hit
              /\ Done(x) => (x.wrote # x.failed)
        /\ (Done(x) /\ x.wrote) =>
              LET key == Key(x.req)
              IN  /\ key \in DOMAIN CACHE
                  /\ CACHE[key].timestamp >= x.tset
                  /\ (g.lastWrite[key].data = x.data /\ g.lastWrite[key].timestamp = x.tset)
                        => CACHE[key] = [data |-> x.data, timestamp |-> x.tset]
        /\ SawFresh(x) => (Done(x) /\ x.hit /\ ~x.wrote /\ ~x.failed)

\* a call found the entry expired and stored a new one, and a later request was
\* served from the new entry
C3_Witness ==
    LET key == Key(g.last.req)
    IN  /\ Done(g.last) /\ g.last.hit
        /\ g.lastWrite[key].refresh
        /\ g.last.prior = g.lastWrite[key].data
        /\ EntryTime(g.last) = g.lastWrite[key].timestamp
        /\ CACHE[key].data = g.last.resp.body

NonMissing(rows) == Cardinality({i \in 1..Len(rows) : ~IsNaN(rows[i].value)})

\* the upstream gave rows, but none survives the cleaning and the transform
AllFiltered(x) ==
    /\ x.req.route = "fred" /\ x.up.tag = "table" /\ Len(x.up.rows) > 0
    /\ \/ NonMissing(x.up.rows) = 0
       \/ x.req.transform = Some("yoy") /\ NonMissing(x.up.rows) <= QuarterlyLag

NoData200(x) == x.up.tag = "table" /\ Len(x.up.rows) = 0

Fetched(x) == Done(x) /\ ~x.hit

EmptyHistory(d) == Len(d.history) = 0 /\ Len(d.values) = 0

\* C4 as claimed: no data, everything filtered out, or an upstream exception
\* give a 500 {error: message} with a non-empty message, and no 200 response
\* carries an empty history.
C4_FailuresAnswer500WithMessage ==
    \A x \in Handlers : Done(x) =>
        /\ (Fetched(x) /\ (NoData200(x) \/ AllFiltered(x) \/ x.up.tag = "raise")) =>
              (x.resp.status = 500 /\ x.resp.json /\ x.resp.error # "")
        /\ x.resp.status = 200 => ~EmptyHistory(x.resp.body)

\* C4 amended: no data or everything filtered out give a 500 {error: message}
\* with a non-empty message; an upstream exception gives a 500 {error: message}
\* whose message is the exception's str(), empty when the exception has none;
\* no 200 response carries an empty history.
C4_FailuresAnswer500 ==
    \A x \in Handlers : Done(x) =>
        /\ (Fetched(x) /\ (NoData200(x) \/ AllFiltered(x))) =>
              (x.resp.status = 500 /\ x.resp.json /\ x.resp.error # "")
        /\ (Fetched(x) /\ x.up.tag = "raise") =>
              (x.resp.status = 500 /\ x.resp.json /\ x.resp.error = x.up.msg)
        /\ x.resp.status = 200 => ~EmptyHistory(x.resp.body)

\* a series whose observations were all filtered out was answered
C4_Witness ==
    Fetched(g.last) /\ AllFiltered(g.last) /\ g.last.resp.status = 500

\* every <<key, payload>> a fetch of the service can return
FetchResults ==
    UNION {{<<Key(r), Adapter(r, up)>> : up \in AnswersIn("service", r)} : r \in MainReqs}

Payloads == {<<kr[1], kr[2].data>> : kr \in {x \in FetchResults : x[2].ok}}

PayloadsFor(key) == {kd[2] : kd \in {x \in Payloads : x[1] = key}}

\* C8: under every interleaving each cache entry is the {data, timestamp} pair
\* of the last cache_set for its key, its data is the whole payload of a fetch
\* for that key, a key never written has no entry, and every 200 response
\* carries one whole fetched payload for the key of its request.
C8_EntriesAreWholeWrites ==
    /\ DOMAIN CACHE = DOMAIN g.lastWrite
    /\ \A k \in DOMAIN CACHE :
          /\ CACHE[k] = [data |-> g.lastWrite[k].data,
                         timestamp |-> g.lastWrite[k].timestamp]
          /\ CACHE[k].data \in PayloadsFor(k)
    /\ \A x \in Handlers :
          (Done(x) /\ x.resp.status = 200) => x.resp.body \in PayloadsFor(Key(x.req))

\* two handlers missed on the same key at overlapping times, and both fetched
\* and wrote, with different payloads: the one that answered last stored its
\* payload over what the other had stored after its lookup
C8_Witness ==
    LET key == Key(g.last.req)
    IN  /\ Done(g.last) /\ g.last.wrote
        /\ \E i \in 1..Len(OksOf(key)) :
              LET d == OksOf(key)[i]
              IN  /\ d.data # g.last.data
                  /\ g.last.t0 <= d.ts /\ d.ts <= g.last.tset
        /\ CACHE[key].data = g.last.data
        /\ \E k \in DOMAIN CACHE : k # key

\* C9: the step in which a handler's fetch fails leaves the cache as it was
\* (no entry inserted or replaced, no timestamp refreshed) and answers 500,
\* a handler goes on to cache_set only with a fetch that succeeded, and no
\* entry ever holds anything but a fetched payload.
C9_FailedFetchLeavesCache ==
    [][/\ \A x \in InFlight :
             (x.pc = "fetch" /\ h' = Without(x)) =>
                /\ g'.last.failed /\ g'.last.resp.status = 500
                /\ CACHE' = CACHE
       /\ \A y \in BagToSet(h') : ~y.failed
       /\ \A k \in DOMAIN CACHE' : Truthy(CACHE'[k].data)]_vars

\* a fetch failed while a stale entry for the key was in the cache
C9_Witness ==
    /\ Done(g.last) /\ g.last.failed /\ SawStale(g.last)
    /\ Key(g.last.req) \in DOMAIN CACHE
    /\ CACHE[Key(g.last.req)].timestamp = EntryTime(g.last)

-----------------------------------------------------------------------------
(* Property of the cache keys (checked under SpecKeys) *)

\* C10: the payload returned on a hit has the symbol or series_id of the
\* current request.
C10_HitHasRequestedIdentity ==
    (Done(g.last) /\ g.last.hit /\ g.last.resp.status = 200) =>
        g.last.resp.body.id = g.last.req.id

====
